---- MODULE Spec2Model ----
(***************************************************************************)
(* Signed routing state records (package routing, state.go).               *)
(*                                                                         *)
(* A record binds a peer identity, a timestamp-based sequence number and   *)
(* a list of multiaddrs inside a signed envelope.  The module models the   *)
(* producer path (MakeSignedRoutingState), the consumer path               *)
(* (UnmarshalSignedRoutingState / SignedRoutingStateFromEnvelope), Marshal,*)
(* Equal, the accessors, and the Go slice aliasing between a record's      *)
(* address list and the slices its callers hold.                           *)
(*                                                                         *)
(* The envelope (package crypto), the peer identity (package peer), the    *)
(* protobuf codec and the multiaddr codec are collaborators whose code is  *)
(* not part of state.go; they are modelled from their contracts: an ideal  *)
(* signature, a digest-derived identity, a tagged length-prefixed payload  *)
(* encoding and a validating address decoder.                              *)
(***************************************************************************)
EXTENDS Integers, Sequences, FiniteSets, TLC

VARIABLES
    recs,   \* slot -> *SignedRoutingState held by the caller (or NilRec)
    heap,   \* slice reference -> contents of the []ma.Multiaddr backing array
    origin, \* slot -> how the record was made (build: key and clock reading)
    nwrites,\* caller writes made so far through slices shared with records
    last,   \* the last API call made on the producer side and its result
    pin,    \* consumer side: the untrusted input handed to parse / fromEnvelope
    pout    \* consumer side: what the call returned (and what Marshal then gave)

vars == <<recs, heap, origin, nwrites, last, pin, pout>>

(***************************************************************************)
(* Bounds of the model.                                                    *)
(***************************************************************************)
\* longest address list handed to build or carried by an untrusted payload
MaxAddrs == 2
\* number of caller writes through an aliased address slice in one run
MaxWrites == 1
\* width of the machine word standing for Go's 64-bit int64 / uint64
WordBits == 4

\* the two records a caller holds and compares
Slots == {1, 2}

\* private keys; the public key of private key k is PubOf(k)
PrivKeys == {1, 2}
PubOf(k) == k + 10
PubKeys == {PubOf(k) : k \in PrivKeys}
PrivOf(pk) == pk - 10

\* clock readings, int64 nanoseconds since the epoch (both sides of it)
ClockReadings == {-1, 0, 1}

(***************************************************************************)
(* Wire constants.                                                         *)
(***************************************************************************)
StateEnvelopeDomain == "libp2p-routing-state"
StateEnvelopePayloadType == "/libp2p/routing-state-record"
OtherDomain == "libp2p-other-protocol"
OtherPayloadType == "/libp2p/other-record"

(***************************************************************************)
(* Errors.                                                                 *)
(***************************************************************************)
NoErr == "nil"
ErrAuthentication == "AuthenticationError"
ErrEnvelopeDecode == "envelope unmarshal failed"
ErrPayloadType == "unexpected envelope payload type"
ErrProto == "proto: payload unmarshal failed"
ErrPeerID == "peer id bytes are not a valid identity"
ErrBinding == "peer id in routing state record does not match signing key"

NilRec == [nil |-> TRUE]
NilEnv == [nil |-> TRUE]

(***************************************************************************)
(* Multiaddr codec (go-multiaddr).  A multiaddr is a validated byte string:*)
(* a non-empty sequence of components, each a known protocol code followed *)
(* by one value byte.                                                      *)
(***************************************************************************)
ProtocolCodes == {4, 6}

RECURSIVE ValidComponents(_)
ValidComponents(b) ==
    IF b = <<>> THEN TRUE
    ELSE IF Head(b) \notin ProtocolCodes THEN FALSE
    ELSE IF Len(b) < 2 THEN FALSE
    ELSE ValidComponents(SubSeq(b, 3, Len(b)))

ValidateBytes(b) == b # <<>> /\ ValidComponents(b)

\* ma.NewMultiaddrBytes: [err, addr]
NewMultiaddrBytes(b) ==
    IF ValidateBytes(b) THEN [err |-> FALSE, addr |-> [bytes |-> b]]
    ELSE [err |-> TRUE, addr |-> [bytes |-> <<>>]]

\* Multiaddr.Bytes()
AddrBytes(a) == a.bytes

\* Multiaddr.Equal(): byte equality
AddrEqual(a, b) == a.bytes = b.bytes

GoodAddrBytes == {<<4, 1>>, <<6, 2>>}
BadAddrBytes == {<<>>, <<4>>}
AddrValues == {[bytes |-> b] : b \in GoodAddrBytes}

SeqsUpTo(S, n) == UNION {[1..m -> S] : m \in 0..n}

AddrLists == SeqsUpTo(AddrValues, MaxAddrs)

(***************************************************************************)
(* Peer identity (package peer): the multihash of the public key.          *)
(***************************************************************************)
MultihashCode == 18
Digest(pk) == (pk * 7) % 16

IDFromPublicKey(pk) == <<MultihashCode, Digest(pk)>>
IDFromPrivateKey(k) == IDFromPublicKey(PubOf(k))

\* peer.ID.MarshalBinary
IDMarshalBinary(id) == id

\* peer.IDFromBytes: a structural decode, [err, id]
IDFromBytes(b) ==
    IF Len(b) = 2 /\ b[1] = MultihashCode
    THEN [err |-> FALSE, id |-> b]
    ELSE [err |-> TRUE, id |-> <<>>]

\* peer.ID.MatchesPublicKey
MatchesPublicKey(id, pk) == IDFromPublicKey(pk) = id

(***************************************************************************)
(* Payload codec (pb.RoutingStateRecord through proto.Marshal/Unmarshal):  *)
(* tagged fields in field order, bytes fields length-prefixed, zero-valued *)
(* scalar and empty bytes fields omitted, one tagged entry per address.    *)
(***************************************************************************)
TagPeerId == 1
TagSeq == 2
TagAddresses == 3

EmptyMsg == [PeerId |-> <<>>, Seq |-> 0, Addresses |-> <<>>]

RECURSIVE EncodeAddresses(_)
EncodeAddresses(entries) ==
    IF entries = <<>> THEN <<>>
    ELSE <<TagAddresses, Len(Head(entries))>> \o Head(entries)
             \o EncodeAddresses(Tail(entries))

\* proto.Marshal(&msg)
ProtoMarshal(msg) ==
    (IF msg.PeerId = <<>> THEN <<>> ELSE <<TagPeerId, Len(msg.PeerId)>> \o msg.PeerId)
    \o (IF msg.Seq = 0 THEN <<>> ELSE <<TagSeq, msg.Seq>>)
    \o EncodeAddresses(msg.Addresses)

\* proto.Unmarshal(payload, &msg): [err, msg]
RECURSIVE ProtoDecode(_, _)
ProtoDecode(b, msg) ==
    IF b = <<>> THEN [err |-> FALSE, msg |-> msg]
    ELSE IF Len(b) < 2 THEN [err |-> TRUE, msg |-> EmptyMsg]
    ELSE LET tag == b[1]
             rest == SubSeq(b, 3, Len(b))
         IN  IF tag = TagSeq
             THEN ProtoDecode(rest, [msg EXCEPT !.Seq = b[2]])
             ELSE IF tag \in {TagPeerId, TagAddresses}
             THEN IF b[2] > Len(rest)
                  THEN [err |-> TRUE, msg |-> EmptyMsg]
                  ELSE LET val == SubSeq(rest, 1, b[2])
                           more == SubSeq(rest, b[2] + 1, Len(rest))
                       IN  IF tag = TagPeerId
                           THEN ProtoDecode(more, [msg EXCEPT !.PeerId = val])
                           ELSE ProtoDecode(more,
                                    [msg EXCEPT !.Addresses = Append(@, val)])
             ELSE [err |-> TRUE, msg |-> EmptyMsg]

ProtoUnmarshal(b) == ProtoDecode(b, EmptyMsg)

(***************************************************************************)
(* Signed envelope (package crypto).  The signature is ideal: it verifies  *)
(* only against the signer's public key and the exact domain, payload type *)
(* and payload it was made over.                                           *)
(***************************************************************************)
Sign(k, domain, payloadType, payload) ==
    [signer |-> k, domain |-> domain, payloadType |-> payloadType,
     payload |-> payload]

Verify(pk, domain, payloadType, payload, sig) ==
    sig = Sign(PrivOf(pk), domain, payloadType, payload)

Envelope(pk, payloadType, payload, sig) ==
    [nil |-> FALSE, publicKey |-> pk, payloadType |-> payloadType,
     payload |-> payload, signature |-> sig]

\* crypto.MakeEnvelope
MakeEnvelope(privKey, domain, payloadType, payload) ==
    [err |-> NoErr,
     env |-> Envelope(PubOf(privKey), payloadType, payload,
                      Sign(privKey, domain, payloadType, payload))]

\* SignedEnvelope.Marshal: the wire form lists the four fields
EnvMarshal(e) == <<e.publicKey, e.payloadType, e.payload, e.signature>>

EnvUnmarshal(b) ==
    IF Len(b) = 4
    THEN [err |-> NoErr, env |-> Envelope(b[1], b[2], b[3], b[4])]
    ELSE [err |-> ErrEnvelopeDecode, env |-> NilEnv]

\* SignedEnvelope validity under a domain
EnvValid(e, domain) ==
    Verify(e.publicKey, domain, e.payloadType, e.payload, e.signature)

\* crypto.OpenEnvelope: decode, then verify signature and domain
OpenEnvelope(b, domain) ==
    LET u == EnvUnmarshal(b)
    IN  IF u.err # NoErr THEN u
        ELSE IF ~EnvValid(u.env, domain)
        THEN [err |-> ErrAuthentication, env |-> NilEnv]
        ELSE u

\* SignedEnvelope.Equal
EnvEqual(a, b) ==
    /\ a.publicKey = b.publicKey
    /\ a.payloadType = b.payloadType
    /\ a.signature = b.signature
    /\ a.payload = b.payload

(***************************************************************************)
(* state.go                                                                *)
(***************************************************************************)
\* *SignedRoutingState; addresses is a reference to a slice's backing array
Record(peerID, seq, addresses, envelope) ==
    [nil |-> FALSE, peerID |-> peerID, seq |-> seq, addresses |-> addresses,
     envelope |-> envelope]

\* uint64(time.Now().UnixNano()) for the clock reading now: the two's
\* complement reinterpretation of the signed word as an unsigned one
statelessSeqNo(now) == now % (2 ^ WordBits)

\* variant: the entries are emitted last address first
addrsToProtobuf_Reversed(addrs) ==
    [i \in 1..Len(addrs) |-> AddrBytes(addrs[Len(addrs) + 1 - i])]

\* one AddressInfo{Multiaddr: addr.Bytes()} per address, in order
addrsToProtobuf(addrs) == [i \in 1..Len(addrs) |-> AddrBytes(addrs[i])]

\* variant: the loop stops (break) at the first entry that does not parse
RECURSIVE addrsFromProtobuf_StopAtMalformed(_)
addrsFromProtobuf_StopAtMalformed(entries) ==
    IF entries = <<>> THEN <<>>
    ELSE LET a == NewMultiaddrBytes(Head(entries))
         IN  IF a.err THEN <<>>
             ELSE <<a.addr>> \o addrsFromProtobuf_StopAtMalformed(Tail(entries))

\* append every entry that parses, skip (continue) every entry that does not
RECURSIVE addrsFromProtobuf(_)
addrsFromProtobuf(entries) ==
    IF entries = <<>> THEN <<>>
    ELSE LET a == NewMultiaddrBytes(Head(entries))
         IN  IF a.err THEN addrsFromProtobuf(Tail(entries))
             ELSE <<a.addr>> \o addrsFromProtobuf(Tail(entries))

\* MakeSignedRoutingState(privKey, addrs) with the clock reading now; addrs is
\* the caller's slice (reference ref, current contents addrs).  The record
\* keeps the reference.
MakeSignedRoutingState(privKey, addrs, ref, now) ==
    LET p == IDFromPrivateKey(privKey)
        idBytes == IDMarshalBinary(p)
        seq == statelessSeqNo(now)
        msg == [PeerId |-> idBytes, Seq |-> seq,
                Addresses |-> addrsToProtobuf(addrs)]
        payload == ProtoMarshal(msg)
        made == MakeEnvelope(privKey, StateEnvelopeDomain,
                             StateEnvelopePayloadType, payload)
    IN  IF made.err # NoErr THEN [err |-> made.err, rec |-> NilRec]
        ELSE [err |-> NoErr, rec |-> Record(p, seq, ref, made.env)]

\* variant: the identity is not compared with the envelope's public key
SignedRoutingStateFromEnvelope_NoBinding(envelope, ref) ==
    LET fail(e) == [err |-> e, rec |-> NilRec, out |-> <<>>]
    IN  IF envelope.payloadType # StateEnvelopePayloadType
        THEN fail(ErrPayloadType)
        ELSE LET dec == ProtoUnmarshal(envelope.payload)
             IN  IF dec.err THEN fail(ErrProto)
                 ELSE LET id == IDFromBytes(dec.msg.PeerId)
                      IN  IF id.err THEN fail(ErrPeerID)
                          ELSE [err |-> NoErr,
                                rec |-> Record(id.id, dec.msg.Seq, ref, envelope),
                                out |-> addrsFromProtobuf(dec.msg.Addresses)]

\* variant: the payload type is not compared with the fixed tag
SignedRoutingStateFromEnvelope_NoTypeCheck(envelope, ref) ==
    LET fail(e) == [err |-> e, rec |-> NilRec, out |-> <<>>]
        dec == ProtoUnmarshal(envelope.payload)
    IN  IF dec.err THEN fail(ErrProto)
        ELSE LET id == IDFromBytes(dec.msg.PeerId)
             IN  IF id.err THEN fail(ErrPeerID)
                 ELSE IF ~MatchesPublicKey(id.id, envelope.publicKey)
                 THEN fail(ErrBinding)
                 ELSE [err |-> NoErr,
                       rec |-> Record(id.id, dec.msg.Seq, ref, envelope),
                       out |-> addrsFromProtobuf(dec.msg.Addresses)]

\* SignedRoutingStateFromEnvelope(envelope); a record it returns holds a new
\* slice, allocated at reference ref with contents out
SignedRoutingStateFromEnvelope(envelope, ref) ==
    LET fail(e) == [err |-> e, rec |-> NilRec, out |-> <<>>]
    IN  IF envelope.payloadType # StateEnvelopePayloadType
        THEN fail(ErrPayloadType)
        ELSE LET dec == ProtoUnmarshal(envelope.payload)
             IN  IF dec.err THEN fail(ErrProto)
                 ELSE LET id == IDFromBytes(dec.msg.PeerId)
                      IN  IF id.err THEN fail(ErrPeerID)
                          ELSE IF ~MatchesPublicKey(id.id, envelope.publicKey)
                          THEN fail(ErrBinding)
                          ELSE [err |-> NoErr,
                                rec |-> Record(id.id, dec.msg.Seq, ref, envelope),
                                out |-> addrsFromProtobuf(dec.msg.Addresses)]

\* variant: the bytes are decoded but the envelope is not opened (no signature
\* and domain verification)
UnmarshalSignedRoutingState_NoVerify(envelopeBytes, ref) ==
    LET decoded == EnvUnmarshal(envelopeBytes)
    IN  IF decoded.err # NoErr
        THEN [err |-> decoded.err, rec |-> NilRec, out |-> <<>>]
        ELSE SignedRoutingStateFromEnvelope(decoded.env, ref)

\* UnmarshalSignedRoutingState(envelopeBytes)
UnmarshalSignedRoutingState(envelopeBytes, ref) ==
    LET opened == OpenEnvelope(envelopeBytes, StateEnvelopeDomain)
    IN  IF opened.err # NoErr
        THEN [err |-> opened.err, rec |-> NilRec, out |-> <<>>]
        ELSE SignedRoutingStateFromEnvelope(opened.env, ref)

\* variant: the payload is encoded again from the record's fields
Marshal_Rebuilt(s) ==
    EnvMarshal(Envelope(s.envelope.publicKey, s.envelope.payloadType,
                        ProtoMarshal([PeerId |-> IDMarshalBinary(s.peerID),
                                      Seq |-> s.seq,
                                      Addresses |-> addrsToProtobuf(heap[s.addresses])]),
                        s.envelope.signature))

\* (*SignedRoutingState).Marshal
Marshal(s) == EnvMarshal(s.envelope)

\* (*SignedRoutingState).PeerID, Seq, Multiaddrs; Multiaddrs hands out the
\* record's own slice, whose contents in heap h are h[s.addresses]
PeerID(s) == s.peerID
SeqNo(s) == s.seq
Multiaddrs(s) == s.addresses
Addresses(s, h) == h[Multiaddrs(s)]

\* the loop of Equal over range s.addresses, from index i
RECURSIVE AddrsEqualFrom(_, _, _)
AddrsEqualFrom(xs, ys, i) ==
    IF i > Len(xs) THEN TRUE
    ELSE IF ~AddrEqual(xs[i], ys[i]) THEN FALSE
    ELSE AddrsEqualFrom(xs, ys, i + 1)

\* variant: the envelopes are not compared
Equal_NoEnvelope(s, other, h) ==
    IF other.nil THEN FALSE
    ELSE IF s.seq # other.seq THEN FALSE
    ELSE IF s.peerID # other.peerID THEN FALSE
    ELSE IF Len(h[s.addresses]) # Len(h[other.addresses]) THEN FALSE
    ELSE AddrsEqualFrom(h[s.addresses], h[other.addresses], 1)

\* (*SignedRoutingState).Equal(other) with the heap h
Equal(s, other, h) ==
    IF other.nil THEN FALSE
    ELSE IF s.seq # other.seq THEN FALSE
    ELSE IF s.peerID # other.peerID THEN FALSE
    ELSE IF Len(h[s.addresses]) # Len(h[other.addresses]) THEN FALSE
    ELSE IF ~AddrsEqualFrom(h[s.addresses], h[other.addresses], 1) THEN FALSE
    ELSE EnvEqual(s.envelope, other.envelope)

(***************************************************************************)
(* Consumer side: one untrusted input, parse or fromEnvelope applied to    *)
(* it, then Marshal applied to the record returned.                        *)
(***************************************************************************)
ValidIdBytes == {IDFromPublicKey(pk) : pk \in PubKeys} \cup {<<MultihashCode, 9>>}
IdByteStrings == ValidIdBytes \cup {<<>>, <<17, 13>>}
SeqValues == {0, 5}
EntryLists == SeqsUpTo(GoodAddrBytes \cup BadAddrBytes, MaxAddrs)

Msgs == [PeerId : IdByteStrings, Seq : SeqValues, Addresses : EntryLists]
MalformedPayloads == {<<0, 0>>, <<TagPeerId, 5, MultihashCode>>}
Payloads == {ProtoMarshal(m) : m \in Msgs} \cup MalformedPayloads

\* signatures an input may carry for (pk, payloadType, payload): the key's own
\* under the right domain, the key's own under another domain, another key's
Signatures(pk, payloadType, payload) ==
    {Sign(PrivOf(pk), StateEnvelopeDomain, payloadType, payload),
     Sign(PrivOf(pk), OtherDomain, payloadType, payload)}
    \cup {Sign(k, StateEnvelopeDomain, payloadType, payload) :
             k \in PrivKeys \ {PrivOf(pk)}}

InputEnvelopes ==
    UNION {UNION {UNION {
        {Envelope(pk, ty, pl, sig) : sig \in Signatures(pk, ty, pl)} :
            pl \in Payloads} :
            ty \in {StateEnvelopePayloadType, OtherPayloadType}} :
            pk \in PubKeys}

MalformedWire == {<<>>, <<11>>}

ParseInputs ==
    {[kind |-> "bytes", bytes |-> EnvMarshal(e), env |-> NilEnv] :
         e \in InputEnvelopes}
    \cup {[kind |-> "bytes", bytes |-> b, env |-> NilEnv] : b \in MalformedWire}
    \cup {[kind |-> "envelope", bytes |-> <<>>, env |-> e] : e \in InputEnvelopes}

NoInput == [kind |-> "none", bytes |-> <<>>, env |-> NilEnv]
NoOutput == [op |-> "none", err |-> NoErr, marshalled |-> FALSE, bytes |-> <<>>]
NoOrigin == [op |-> "none", key |-> 0, at |-> 0, src |-> 0]
Idle == [op |-> "init", x |-> 0, y |-> 0, res |-> FALSE]

Empty ==
    /\ recs = [i \in Slots |-> NilRec]
    /\ heap = [i \in Slots |-> <<>>]
    /\ origin = [i \in Slots |-> NoOrigin]
    /\ nwrites = 0
    /\ last = Idle

InitParse ==
    /\ Empty
    /\ pin \in ParseInputs
    /\ pout = NoOutput

\* the call returned r: the caller keeps the record (slot 1) and its new slice
Returned(op, r) ==
    /\ pout' = [op |-> op, err |-> r.err, marshalled |-> FALSE, bytes |-> <<>>]
    /\ recs' = [recs EXCEPT ![1] = r.rec]
    /\ heap' = [heap EXCEPT ![1] = r.out]
    /\ origin' = [origin EXCEPT ![1] =
                     IF r.err = NoErr THEN [NoOrigin EXCEPT !.op = "parse"]
                     ELSE NoOrigin]
    /\ UNCHANGED <<nwrites, last, pin>>

ParseBytes ==
    /\ pin.kind = "bytes"
    /\ pout.op = "none"
    /\ Returned("parse", UnmarshalSignedRoutingState(pin.bytes, 1))

ParseEnvelope ==
    /\ pin.kind = "envelope"
    /\ pout.op = "none"
    /\ Returned("fromEnvelope", SignedRoutingStateFromEnvelope(pin.env, 1))

MarshalParsed ==
    /\ pout.op # "none"
    /\ pout.err = NoErr
    /\ ~pout.marshalled
    /\ pout' = [pout EXCEPT !.marshalled = TRUE, !.bytes = Marshal(recs[1])]
    /\ UNCHANGED <<recs, heap, origin, nwrites, last, pin>>

NextParse == ParseBytes \/ ParseEnvelope \/ MarshalParsed

SpecParse == InitParse /\ [][NextParse]_vars

(***************************************************************************)
(* Properties of the consumer side.                                        *)
(***************************************************************************)
Called == pout.op # "none"

\* the input decodes to an envelope (parse) or is one (fromEnvelope)
HasEnvelope ==
    \/ pin.kind = "envelope"
    \/ pin.kind = "bytes" /\ EnvUnmarshal(pin.bytes).err = NoErr

InEnv == IF pin.kind = "envelope" THEN pin.env ELSE EnvUnmarshal(pin.bytes).env

\* the envelope the record-level checks get to see: parse passes on only what
\* OpenEnvelope returned
Presented ==
    /\ HasEnvelope
    /\ pin.kind = "bytes" => EnvValid(InEnv, StateEnvelopeDomain)

InMsg == ProtoUnmarshal(InEnv.payload)

\* payload type is the fixed tag and the payload decodes to a valid identity
DecodesToIdentity ==
    /\ InEnv.payloadType = StateEnvelopePayloadType
    /\ ~InMsg.err
    /\ ~IDFromBytes(InMsg.msg.PeerId).err

IdentityMatches ==
    IDFromPublicKey(InEnv.publicKey) = InMsg.msg.PeerId

WellFormed(b) == ValidateBytes(b)
Value(b) == [bytes |-> b]

\* the well-formed entries of a payload's address list, in payload order
WellFormedEntries(entries) ==
    LET kept == SelectSeq(entries, WellFormed)
    IN  [i \in 1..Len(kept) |-> Value(kept[i])]

\* C1: an identity that does not match the envelope's public key is rejected
\* with the binding error and no record, so every record returned carries an
\* identity that matches its envelope's public key.
C1_IdentityBinding ==
    /\ (Called /\ Presented /\ DecodesToIdentity /\ ~IdentityMatches)
           => (pout.err = ErrBinding /\ recs[1].nil)
    /\ (Called /\ ~recs[1].nil)
           => IDFromPublicKey(recs[1].envelope.publicKey) = PeerID(recs[1])

C1_Witness ==
    /\ Called /\ Presented /\ DecodesToIdentity /\ ~IdentityMatches
    /\ EnvValid(InEnv, StateEnvelopeDomain)
    /\ InMsg.msg.PeerId \in {IDFromPublicKey(pk) : pk \in PubKeys}
    /\ pout.err = ErrBinding

\* C2: a validly signed envelope whose payload type is not the fixed tag is
\* rejected with the payload type error and no record, whatever its payload.
C2_PayloadType ==
    (Called /\ HasEnvelope /\ EnvValid(InEnv, StateEnvelopeDomain)
        /\ InEnv.payloadType # StateEnvelopePayloadType)
        => (pout.err = ErrPayloadType /\ recs[1].nil)

C2_Witness ==
    /\ Called /\ HasEnvelope /\ EnvValid(InEnv, StateEnvelopeDomain)
    /\ InEnv.payloadType # StateEnvelopePayloadType
    /\ ~InMsg.err /\ IdentityMatches
    /\ pout.op = "parse"
    /\ pout.err = ErrPayloadType

\* C3: parse rejects bytes whose signature does not verify under the fixed
\* domain with the authentication error and no record, before and whatever
\* the later checks would say.
C3_Authentication ==
    (pout.op = "parse" /\ HasEnvelope /\ ~EnvValid(InEnv, StateEnvelopeDomain))
        => (pout.err = ErrAuthentication /\ recs[1].nil)

C3_Witness ==
    /\ pout.op = "parse" /\ HasEnvelope
    /\ InEnv.signature = Sign(PrivOf(InEnv.publicKey), OtherDomain,
                              InEnv.payloadType, InEnv.payload)
    /\ DecodesToIdentity /\ IdentityMatches
    /\ pout.err = ErrAuthentication

\* C5: Marshal of a parsed record gives back exactly the bytes it was parsed
\* from, also when parse dropped malformed address entries.
C5_ByteStable ==
    (pout.op = "parse" /\ pout.marshalled) => pout.bytes = pin.bytes

C5_Witness ==
    /\ pout.op = "parse" /\ pout.marshalled
    /\ Len(Addresses(recs[1], heap)) < Len(InMsg.msg.Addresses)
    /\ Len(Addresses(recs[1], heap)) > 0

\* C7: a successful parse / fromEnvelope yields exactly the well-formed
\* entries of the payload, in payload order, and malformed entries never make
\* an otherwise acceptable input fail.
C7_PartialAddresses ==
    /\ (Called /\ pout.err = NoErr)
           => Addresses(recs[1], heap) = WellFormedEntries(InMsg.msg.Addresses)
    /\ (Called /\ Presented /\ DecodesToIdentity /\ IdentityMatches)
           => pout.err = NoErr

C7_Witness ==
    /\ Called /\ pout.err = NoErr
    /\ Len(InMsg.msg.Addresses) = 2
    /\ Len(Addresses(recs[1], heap)) = 1
    /\ ~WellFormed(InMsg.msg.Addresses[1])

\* C10: fromEnvelope returns an error and no record for an envelope whose
\* signature does not verify under the fixed domain.
C10_FromEnvelopeVerifies ==
    (pout.op = "fromEnvelope" /\ ~EnvValid(pin.env, StateEnvelopeDomain))
        => (pout.err # NoErr /\ recs[1].nil)

(***************************************************************************)
(* Producer side: a caller that builds records, re-parses what a record    *)
(* marshals to, compares records, and writes to the address slices it      *)
(* shares with records (the slice it passed to build, the slice Multiaddrs *)
(* returned).                                                              *)
(***************************************************************************)
Init ==
    /\ Empty
    /\ pin = NoInput
    /\ pout = NoOutput

\* slots fill in order
NextFree(i) == recs[i].nil /\ \A j \in Slots : j < i => ~recs[j].nil

\* r, err := MakeSignedRoutingState(k, addrs) with a slice the caller made anew
Build(i, k, addrs, now) ==
    /\ NextFree(i)
    /\ LET r == MakeSignedRoutingState(k, addrs, i, now)
       IN  /\ r.err = NoErr
           /\ recs' = [recs EXCEPT ![i] = r.rec]
           /\ heap' = [heap EXCEPT ![i] = addrs]
           /\ origin' = [origin EXCEPT ![i] =
                  [op |-> "build", key |-> k, at |-> now, src |-> 0]]
    /\ last' = [op |-> "build", x |-> i, y |-> 0, res |-> TRUE]
    /\ UNCHANGED <<nwrites, pin, pout>>

\* r, err := MakeSignedRoutingState(k, addrs) with a slice the caller already
\* holds: the one record j keeps
BuildShared(i, k, j, now) ==
    /\ NextFree(i)
    /\ ~recs[j].nil
    /\ LET ref == Multiaddrs(recs[j])
           r == MakeSignedRoutingState(k, heap[ref], ref, now)
       IN  /\ r.err = NoErr
           /\ recs' = [recs EXCEPT ![i] = r.rec]
           /\ origin' = [origin EXCEPT ![i] =
                  [op |-> "build", key |-> k, at |-> now, src |-> 0]]
    /\ last' = [op |-> "build", x |-> i, y |-> 0, res |-> TRUE]
    /\ UNCHANGED <<heap, nwrites, pin, pout>>

\* b, _ := recs[i].Marshal(); r, err := UnmarshalSignedRoutingState(b)
Reparse(i, j) ==
    /\ ~recs[i].nil
    /\ NextFree(j)
    /\ LET r == UnmarshalSignedRoutingState(Marshal(recs[i]), j)
       IN  /\ recs' = [recs EXCEPT ![j] = r.rec]
           /\ heap' = [heap EXCEPT ![j] = r.out]
           /\ origin' = [origin EXCEPT ![j] =
                  IF r.err = NoErr
                  THEN [op |-> "parse", key |-> 0, at |-> 0, src |-> i]
                  ELSE NoOrigin]
           /\ last' = [op |-> "reparse", x |-> i, y |-> j, res |-> r.err = NoErr]
    /\ UNCHANGED <<nwrites, pin, pout>>

\* addrs[idx] = a through a slice shared with record i: recs[i].Multiaddrs(),
\* or the argument of the build call that made it
Write(i, idx, a) ==
    /\ nwrites < MaxWrites
    /\ ~recs[i].nil
    /\ LET ref == Multiaddrs(recs[i])
       IN  /\ idx \in 1..Len(heap[ref])
           /\ heap[ref][idx] # a
           /\ heap' = [heap EXCEPT ![ref][idx] = a]
    /\ nwrites' = nwrites + 1
    /\ last' = [op |-> "write", x |-> i, y |-> 0, res |-> TRUE]
    /\ UNCHANGED <<recs, origin, pin, pout>>

\* recs[i].Equal(recs[j]); j = 0 or an empty slot passes a nil pointer
DoEqual(i, j) ==
    /\ ~recs[i].nil
    /\ i # j
    /\ last' = [op |-> "equal", x |-> i, y |-> j,
                res |-> Equal(recs[i], IF j = 0 THEN NilRec ELSE recs[j], heap)]
    /\ UNCHANGED <<recs, heap, origin, nwrites, pin, pout>>

Next ==
    \/ \E i \in Slots, k \in PrivKeys, addrs \in AddrLists, now \in ClockReadings :
           Build(i, k, addrs, now)
    \/ \E i \in Slots, k \in PrivKeys, j \in Slots, now \in ClockReadings :
           BuildShared(i, k, j, now)
    \/ \E i \in Slots, j \in Slots : Reparse(i, j)
    \/ \E i \in Slots, idx \in 1..MaxAddrs, a \in AddrValues : Write(i, idx, a)
    \/ \E i \in Slots, j \in Slots \cup {0} : DoEqual(i, j)

Spec == Init /\ [][Next]_vars

(***************************************************************************)
(* Properties of the producer side.                                        *)
(***************************************************************************)
\* record b was parsed from what built record a marshalled to
RoundTripPair(a, b) ==
    /\ origin[a].op = "build"
    /\ origin[b].op = "parse"
    /\ origin[b].src = a

\* the argument of the last Equal call
Other == IF last.y = 0 THEN NilRec ELSE recs[last.y]

\* C4: parsing what a built record marshals to succeeds and gives a record
\* equal to it in both directions: same identity, sequence, addresses in the
\* same order, and envelope (r as build returned it, before any caller write).
C4_RoundTrip ==
    /\ (last.op = "reparse" /\ origin[last.x].op = "build") => last.res
    /\ \A a \in Slots, b \in Slots :
           (nwrites = 0 /\ RoundTripPair(a, b)) =>
               /\ PeerID(recs[b]) = PeerID(recs[a])
               /\ SeqNo(recs[b]) = SeqNo(recs[a])
               /\ Addresses(recs[b], heap) = Addresses(recs[a], heap)
               /\ recs[b].envelope = recs[a].envelope
               /\ (last.op = "equal" /\ {last.x, last.y} = {a, b}) => last.res

C4_Witness ==
    /\ nwrites = 0
    /\ RoundTripPair(1, 2)
    /\ last.op = "equal" /\ last.x = 2 /\ last.y = 1 /\ last.res
    /\ Len(Addresses(recs[1], heap)) = 2
    /\ Addresses(recs[1], heap)[1] = Addresses(recs[1], heap)[2]

\* exact structural equality of two records in heap h
StructurallyEqual(a, b, h) ==
    /\ ~b.nil
    /\ a.seq = b.seq
    /\ a.peerID = b.peerID
    /\ Len(h[a.addresses]) = Len(h[b.addresses])
    /\ \A i \in 1..Len(h[a.addresses]) :
           i <= Len(h[b.addresses]) => h[a.addresses][i] = h[b.addresses][i]
    /\ a.envelope = b.envelope

\* C6: Equal returns true exactly when sequence numbers, identities, address
\* lists (same length, pairwise equal at each index) and envelopes are equal;
\* it is false for a nil argument.
C6_EqualExact ==
    last.op = "equal" => last.res = StructurallyEqual(recs[last.x], Other, heap)

\* two records of the same identity and sequence number whose address lists
\* are each other's reverse
C6_Witness ==
    /\ last.op = "equal" /\ ~Other.nil /\ ~last.res
    /\ recs[last.x].seq = Other.seq
    /\ recs[last.x].peerID = Other.peerID
    /\ Len(Addresses(recs[last.x], heap)) = 2
    /\ Len(Addresses(Other, heap)) = 2
    /\ Addresses(Other, heap)[1] # Addresses(Other, heap)[2]
    /\ Addresses(Other, heap)[1] = Addresses(recs[last.x], heap)[2]
    /\ Addresses(Other, heap)[2] = Addresses(recs[last.x], heap)[1]

\* C8: of two records built with the same key, the one whose build took the
\* strictly greater clock reading has the strictly greater sequence number.
C8_Ordering ==
    \A i \in Slots, j \in Slots :
        (/\ origin[i].op = "build" /\ origin[j].op = "build"
         /\ origin[i].key = origin[j].key
         /\ origin[i].at < origin[j].at)
            => SeqNo(recs[i]) < SeqNo(recs[j])

\* what the accessors of record s show in heap h
Observed(s, h) == <<PeerID(s), SeqNo(s), Addresses(s, h), s.envelope>>

\* C9: once a record has been returned, what its accessors show never
\* changes, whatever the caller does next.
C9_Immutable ==
    [][\A i \in Slots :
          ~recs[i].nil => (~recs'[i].nil
                           /\ Observed(recs'[i], heap') = Observed(recs[i], heap))]_vars

====
